---- MODULE Spec2Model ----
(***************************************************************************)
(* Model of app.py (Duravant Digital Assistant, a Streamlit script).       *)
(*                                                                         *)
(* A text is a sequence of one-character strings.  The byte content of an  *)
(* upload is a sequence over ByteAlphabet.  None is the empty sequence and *)
(* Some(x) the one-element sequence <<x>>.                                  *)
(*                                                                         *)
(* Streamlit runs main() top to bottom once per widget event; the values   *)
(* in st.session_state survive from one run to the next, and an exception  *)
(* ends the run at the statement that raised it.  One run is modelled as   *)
(* the steps sidebar -> upload -> chat, in program order.                  *)
(***************************************************************************)
EXTENDS Integers, Sequences, FiniteSets, TLC

\* ---------------------------------------------------------------- bounds
\* Largest number of user/assistant exchanges kept in chat_history.
MaxTurns == 2
\* Longest text and largest bound drawn for the snippet specification.
MaxLen == 4
MaxBound == 5
\* Longest byte content drawn for the extraction specification.
MaxPages == 3

\* ------------------------------------------------------ program constants
\* report_text[:15000] and summary[:6000]
ReportBound == 15000
SummaryBound == 6000
\* temperature=0.2, in tenths
TemperatureTenths == 2
MODEL_SUMMARY == "gpt-4.1-mini"
MODEL_CHAT == "gpt-4.1-mini"

\* ------------------------------------------------------------ text helpers
None == << >>
Some(x) == << x >>

Min(a, b) == IF a <= b THEN a ELSE b

UpperChars ==
    <<"A","B","C","D","E","F","G","H","I","J","K","L","M","N","O","P","Q",
      "R","S","T","U","V","W","X","Y","Z">>
LowerChars ==
    <<"a","b","c","d","e","f","g","h","i","j","k","l","m","n","o","p","q",
      "r","s","t","u","v","w","x","y","z">>

\* str.lower(), one character
lower_char(c) ==
    IF \E i \in 1..Len(UpperChars) : UpperChars[i] = c
    THEN LowerChars[CHOOSE i \in 1..Len(UpperChars) : UpperChars[i] = c]
    ELSE c

\* str.lower()
lower(s) == [i \in 1..Len(s) |-> lower_char(s[i])]

\* str.endswith(suffix)
endswith(s, suffix) ==
    /\ Len(s) >= Len(suffix)
    /\ SubSeq(s, Len(s) - Len(suffix) + 1, Len(s)) = suffix

Whitespace == {" ", "\n", "\t"}

RECURSIVE lstrip(_)
lstrip(s) ==
    IF s # << >> /\ Head(s) \in Whitespace THEN lstrip(Tail(s)) ELSE s

RECURSIVE rstrip(_)
rstrip(s) ==
    IF s # << >> /\ s[Len(s)] \in Whitespace
    THEN rstrip(SubSeq(s, 1, Len(s) - 1))
    ELSE s

\* str.strip()
strip(s) == rstrip(lstrip(s))

\* sep.join(parts)
RECURSIVE join(_, _)
join(sep, parts) ==
    IF parts = << >> THEN << >>
    ELSE IF Len(parts) = 1 THEN parts[1]
    ELSE parts[1] \o sep \o join(sep, Tail(parts))

\* text[:bound - 1]: the slice stops one character early
Snippet_short(text, bound) == SubSeq(text, 1, Min(bound, Len(text)) - 1)

\* text[:bound] with bound >= 0: the whole text when it is short enough,
\* its first bound characters otherwise (a snippet)
Snippet(text, bound) == SubSeq(text, 1, Min(bound, Len(text)))

\* ------------------------------------------------------------ uploads
\* "X" stands for a byte that is not valid UTF-8 / not valid in the format.
ByteAlphabet == {"a", "b", " ", "X"}
InvalidBytes == {"X"}

\* bytes.decode(errors="ignore"): invalid bytes are dropped
RECURSIVE decode(_)
decode(bytes) ==
    IF bytes = << >> THEN << >>
    ELSE IF Head(bytes) \in InvalidBytes THEN decode(Tail(bytes))
    ELSE << Head(bytes) >> \o decode(Tail(bytes))

Ok(text) == [raised |-> FALSE, text |-> text]
Raise == [raised |-> TRUE, text |-> << >>]

PDF_UNAVAILABLE ==
    <<"P","D","F"," ","s","u","p","p","o","r","t"," ","n","o","t"," ","a",
      "v","a","i","l","a","b","l","e","."," ","I","n","s","t","a","l","l",
      " ","'","p","y","p","d","f","'"," ","t","o"," ","e","n","a","b","l",
      "e"," ","P","D","F"," ","p","a","r","s","i","n","g",".">>

\* pypdf.PdfReader(file): an empty stream is rejected by the reader;
\* otherwise the document has one page per byte.
PdfReaderRaises(bytes) == bytes = << >>

\* page.extract_text(): raises on a damaged page ("X"), returns no text for
\* a blank page (" "), the page's text otherwise.
PageRaises(b) == b \in InvalidBytes
PageText(b) == IF b = " " THEN << >> ELSE << b >>

\* the loop with an empty string appended for a page that raises
RECURSIVE pdf_pages_blank(_)
pdf_pages_blank(bytes) ==
    IF bytes = << >> THEN << >>
    ELSE IF PageRaises(Head(bytes))
         THEN << << >> >> \o pdf_pages_blank(Tail(bytes))
    ELSE << PageText(Head(bytes)) >> \o pdf_pages_blank(Tail(bytes))

\* the loop of extract_text_from_pdf: pages.append(page.extract_text() or "")
\* with `continue` on an exception
RECURSIVE pdf_pages(_)
pdf_pages(bytes) ==
    IF bytes = << >> THEN << >>
    ELSE IF PageRaises(Head(bytes)) THEN pdf_pages(Tail(bytes))
    ELSE << PageText(Head(bytes)) >> \o pdf_pages(Tail(bytes))

extract_text_from_pdf(bytes, pypdf_available) ==
    IF ~pypdf_available THEN Ok(PDF_UNAVAILABLE)
    ELSE IF PdfReaderRaises(bytes) THEN Raise
    ELSE Ok(join(<<"\n", "\n">>, pdf_pages(bytes)))

\* pandas parsers: an empty or undecodable stream is rejected
\* (EmptyDataError, UnicodeDecodeError, ValueError).
ParserRaises(bytes) ==
    \/ bytes = << >>
    \/ \E i \in 1..Len(bytes) : bytes[i] \in InvalidBytes

\* df.to_string(index=False): one line per cell
to_string(cells) == join(<<"\n">>, [i \in 1..Len(cells) |-> << cells[i] >>])

extract_text_from_csv(bytes) ==
    IF ParserRaises(bytes) THEN Raise ELSE Ok(to_string(bytes))

SheetPrefix == <<"=","=","="," ","S","h","e","e","t",":"," ">>
SheetSuffix == <<" ","=","=","=","\n">>

\* one sheet per byte, named by it, with an empty table
extract_text_from_excel(bytes) ==
    IF ParserRaises(bytes) THEN Raise
    ELSE Ok(join(<<"\n", "\n">>,
                 [i \in 1..Len(bytes) |->
                     SheetPrefix \o << bytes[i] >> \o SheetSuffix
                        \o to_string(<< >>)]))

ExtPdf == <<".", "p", "d", "f">>
ExtCsv == <<".", "c", "s", "v">>
ExtXlsx == <<".", "x", "l", "s", "x">>
ExtXls == <<".", "x", "l", "s">>
ExtTxt == <<".", "t", "x", "t">>

\* the dispatch without name.lower()
Extractor_case_sensitive(filename) ==
    IF endswith(filename, ExtPdf) THEN "pdf"
    ELSE IF endswith(filename, ExtCsv) THEN "csv"
    ELSE IF endswith(filename, ExtXlsx) \/ endswith(filename, ExtXls)
         THEN "excel"
    ELSE IF endswith(filename, ExtTxt) THEN "txt"
    ELSE "other"

\* which branch of load_report_text a file name takes
Extractor(filename) ==
    LET name == lower(filename) IN
    IF endswith(name, ExtPdf) THEN "pdf"
    ELSE IF endswith(name, ExtCsv) THEN "csv"
    ELSE IF endswith(name, ExtXlsx) \/ endswith(name, ExtXls) THEN "excel"
    ELSE IF endswith(name, ExtTxt) THEN "txt"
    ELSE "other"

\* load_report_text(uploaded_file), uploaded_file not None
load_report_text(file, pypdf_available) ==
    LET kind == Extractor(file.name) IN
    IF kind = "pdf" THEN extract_text_from_pdf(file.bytes, pypdf_available)
    ELSE IF kind = "csv" THEN extract_text_from_csv(file.bytes)
    ELSE IF kind = "excel" THEN extract_text_from_excel(file.bytes)
    ELSE IF kind = "txt" THEN Ok(decode(file.bytes))
    ELSE Ok(decode(file.bytes))

\* ------------------------------------------------------------ state
VARIABLES
    session_state,    \* st.session_state: report_text, summary,
                      \* chat_history, last_filename
    uploaded_file,    \* value of the st.file_uploader widget
    button,           \* "Reset conversation" was clicked for this run
    user_input,       \* value of st.chat_input in this run
    chat_input_shown, \* the last run rendered st.chat_input
    pypdf,            \* the optional pypdf import succeeded
    pc,               \* position of the current run of main()
    log,              \* backend requests issued by the current run
    error,            \* the exception that ended the current run
    probe_in,         \* arguments drawn for a function applied on its own
    probe_out         \* the results of applying it

vars == << session_state, uploaded_file, button, user_input,
           chat_input_shown, pypdf, pc, log, error, probe_in, probe_out >>

\* ------------------------------------------------------------ LLM helpers
\* The two fixed system prompts and the fixed parts of the context block are
\* never sliced, so each is kept as one element of a text.
SummarySystemPrompt ==
    << "You are the Duravant Digital Assistant. You analyze ... Summarize the content in the following structured format: ..." >>
ChatSystemPrompt ==
    << "You are the Duravant Digital Assistant, a conversational assistant ... 'The report does not contain that information.' ..." >>
ContextHead == << "Here is the current report context.\n\n=== SUMMARY ===\n" >>
ContextMiddle == << "\n\n=== ORIGINAL REPORT TEXT (SNIPPET) ===\n" >>
ContextTail == << "\n" >>

Message(role, content) == [role |-> role, content |-> content]

\* the arguments of client.chat.completions.create
Request(model, messages) ==
    [model |-> model, messages |-> messages, temperature |-> TemperatureTenths]

\* a summary request that also carries the summary stored before
generate_summary_stateful(report_text) ==
    [model |-> MODEL_SUMMARY,
     messages |->
        << [role |-> "system", content |-> SummarySystemPrompt],
           [role |-> "user",
            content |-> session_state.summary
                           \o Snippet(report_text, ReportBound)] >>,
     temperature |-> TemperatureTenths]

\* the request generate_summary sends
generate_summary(report_text) ==
    LET trimmed == Snippet(report_text, ReportBound) IN
    Request(MODEL_SUMMARY,
            << Message("system", SummarySystemPrompt),
               Message("user", trimmed) >>)

\* chat_with_report with the new user message placed before the history
chat_with_report_reordered(user_message, report_text, summary, chat_history) ==
    LET context_block == ContextHead \o Snippet(summary, SummaryBound)
                            \o ContextMiddle
                            \o Snippet(report_text, ReportBound)
                            \o ContextTail
        messages == << Message("system", ChatSystemPrompt),
                       Message("assistant", context_block),
                       Message("user", user_message) >>
                    \o chat_history
    IN [request |-> Request(MODEL_CHAT, messages),
        chat_history |-> chat_history]

\* chat_with_report building its message list in the caller's list:
\* the new user message lands in chat_history
chat_with_report_aliasing(user_message, report_text, summary, chat_history) ==
    LET context_block == ContextHead \o Snippet(summary, SummaryBound)
                            \o ContextMiddle
                            \o Snippet(report_text, ReportBound)
                            \o ContextTail
        messages == << Message("system", ChatSystemPrompt),
                       Message("assistant", context_block) >>
                    \o chat_history
                    \o << Message("user", user_message) >>
    IN [request |-> Request(MODEL_CHAT, messages),
        chat_history |-> Append(chat_history, Message("user", user_message))]

\* chat_with_report moving the turns out of the caller's list as it copies
\* them: the caller's chat_history is left empty
chat_with_report_consuming(user_message, report_text, summary, chat_history) ==
    LET context_block == ContextHead \o Snippet(summary, SummaryBound)
                            \o ContextMiddle
                            \o Snippet(report_text, ReportBound)
                            \o ContextTail
        messages == << Message("system", ChatSystemPrompt),
                       Message("assistant", context_block) >>
                    \o chat_history
                    \o << Message("user", user_message) >>
    IN [request |-> Request(MODEL_CHAT, messages),
        chat_history |-> << >>]

\* chat_with_report up to the backend call: the request it sends, and the
\* list object chat_history as the call leaves it
chat_with_report(user_message, report_text, summary, chat_history) ==
    LET report_snippet == Snippet(report_text, ReportBound)
        summary_snippet == Snippet(summary, SummaryBound)
        context_block == ContextHead \o summary_snippet \o ContextMiddle
                            \o report_snippet \o ContextTail
        messages == << Message("system", ChatSystemPrompt),
                       Message("assistant", context_block) >>
                    \o chat_history
                    \o << Message("user", user_message) >>
    IN [request |-> Request(MODEL_CHAT, messages),
        chat_history |-> chat_history]

\* The generation backend, as a deterministic stub: the completion is the
\* content of the last message in brackets, with surrounding whitespace.
Complete(request) ==
    LET last == request.messages[Len(request.messages)] IN
    << " ", "[" >> \o last.content \o << "]", "\n" >>

\* response.choices[0].message.content.strip()
ResponseText(request) == strip(Complete(request))

\* ------------------------------------------------------------ session
\* init_session_state on a fresh session
init_session_state ==
    [report_text |-> << >>, summary |-> << >>, chat_history |-> << >>,
     last_filename |-> None]

\* reset_conversation()
reset_conversation(ss) == [ss EXCEPT !.chat_history = << >>]

File(name, bytes) == [name |-> name, bytes |-> bytes]

NameA == <<"A", ".", "t", "x", "t">>
NameB == <<"B", ".", "T", "X", "T">>
NameCsv == <<"r", ".", "c", "s", "v">>
NamePdf == <<"r", ".", "P", "d", "f">>
NameXlsx == <<"r", ".", "x", "l", "s", "x">>
NameXls == <<"r", ".", "x", "l", "s">>
NameOther == <<"n", "o", "t", "e", "s">>

\* the uploads a user may deliver
Files ==
    { File(NameA, <<"a">>),
      File(NameA, <<"b", "X">>),
      File(NameB, << >>),
      File(NameCsv, << >>),
      File(NameCsv, <<"a", "b">>),
      File(NamePdf, <<"a", "X", "b">>),
      File(NameXlsx, <<"a", "b">>),
      File(NameXls, <<"X">>),
      File(NameOther, <<"X", "a">>) }

\* what the user may type into st.chat_input (never empty)
UserMessages == { <<"q">>, <<"h", "i">> }

SessionInit ==
    /\ session_state = init_session_state
    /\ uploaded_file = None
    /\ button = FALSE
    /\ user_input = None
    /\ chat_input_shown = FALSE
    /\ pypdf \in BOOLEAN
    /\ pc = "idle"
    /\ log = << >>
    /\ error = "none"

Init ==
    /\ SessionInit
    /\ probe_in = None
    /\ probe_out = << >>

\* A widget event starts a run of main(): lines 323-333.
StartRun(file, clicked, typed) ==
    /\ pc = "idle"
    /\ uploaded_file' = file
    /\ button' = clicked
    /\ user_input' = typed
    /\ pc' = "sidebar"
    /\ log' = << >>
    /\ error' = "none"
    /\ UNCHANGED << probe_in, probe_out, session_state, chat_input_shown, pypdf >>

\* the user puts a file into st.file_uploader
UploadFile ==
    /\ pc = "idle"
    /\ \E f \in Files : StartRun(Some(f), FALSE, None)

\* the user removes the file from st.file_uploader
RemoveFile ==
    /\ uploaded_file # None
    /\ StartRun(None, FALSE, None)

\* the user clicks "Reset conversation"
ClickReset ==
    /\ pc = "idle"
    /\ StartRun(uploaded_file, TRUE, None)

\* the user submits a message in st.chat_input
SubmitChat ==
    /\ chat_input_shown
    /\ Len(session_state.chat_history) < 2 * MaxTurns
    /\ \E m \in UserMessages : StartRun(uploaded_file, FALSE, Some(m))

\* a reset button that starts the whole session over
sidebar_reinitialising(ss, clicked) ==
    IF clicked THEN init_session_state ELSE ss

\* if st.button("Reset conversation"): reset_conversation()
sidebar(ss, clicked) == IF clicked THEN reset_conversation(ss) ELSE ss

\* the sidebar block of main()
Sidebar ==
    /\ pc = "sidebar"
    /\ session_state' = sidebar(session_state, button)
    /\ pc' = "upload"
    /\ UNCHANGED << probe_in, probe_out, uploaded_file, button, user_input, chat_input_shown,
                    pypdf, log, error >>

\* every delivery of an upload is processed as new
IsNewUpload_always(ss, file) == TRUE

\* st.session_state.last_filename != uploaded_file.name
IsNewUpload(ss, file) == ss.last_filename # Some(file.name)

\* the marker is stored together with the text, before the summary exists
store_report_text_marking(ss, report_text) ==
    [ss EXCEPT !.report_text = report_text,
               !.last_filename =
                  IF uploaded_file = None THEN None
                  ELSE Some(uploaded_file[1].name)]

\* st.session_state.report_text = report_text
store_report_text(ss, report_text) == [ss EXCEPT !.report_text = report_text]

\* the new summary is appended to the old one
store_summary_appending(ss, summary, file) ==
    [ss EXCEPT !.summary = @ \o summary, !.last_filename = Some(file.name),
               !.chat_history = << >>]

\* line 364 left out: the summary is stored but the marker is not
store_summary_unmarked(ss, summary, file) ==
    [ss EXCEPT !.summary = summary, !.chat_history = << >>]

\* lines 363-365, once generate_summary has returned
store_summary(ss, summary, file) ==
    reset_conversation(
        [ss EXCEPT !.summary = summary, !.last_filename = Some(file.name)])

\* if uploaded_file is not None: if ...last_filename != uploaded_file.name:
HasNewUpload ==
    IF uploaded_file = None THEN FALSE
    ELSE IsNewUpload(session_state, uploaded_file[1])

\* no file in the uploader, or its name is the stored marker: nothing to do
UploadSkip ==
    /\ pc = "upload"
    /\ ~HasNewUpload
    /\ pc' = "chat"
    /\ UNCHANGED << probe_in, probe_out, session_state, uploaded_file, button, user_input,
                    chat_input_shown, pypdf, log, error >>

\* load_report_text raises: the run ends before anything is stored
UploadLoadRaises ==
    /\ pc = "upload"
    /\ HasNewUpload
    /\ load_report_text(uploaded_file[1], pypdf).raised
    /\ error' = "load_report_text"
    /\ chat_input_shown' = FALSE
    /\ pc' = "idle"
    /\ UNCHANGED << probe_in, probe_out, session_state, uploaded_file, button, user_input,
                    pypdf, log >>

\* the backend call of generate_summary raises: report_text is already stored
UploadSummaryFails ==
    /\ pc = "upload"
    /\ HasNewUpload
    /\ LET loaded == load_report_text(uploaded_file[1], pypdf) IN
       /\ ~loaded.raised
       /\ session_state' = store_report_text(session_state, loaded.text)
       /\ log' = Append(log, generate_summary(loaded.text))
    /\ error' = "generate_summary"
    /\ chat_input_shown' = FALSE
    /\ pc' = "idle"
    /\ UNCHANGED << probe_in, probe_out, uploaded_file, button, user_input, pypdf >>

\* lines 361-365 run to the end
UploadOk ==
    /\ pc = "upload"
    /\ HasNewUpload
    /\ LET loaded == load_report_text(uploaded_file[1], pypdf)
           request == generate_summary(loaded.text)
       IN
       /\ ~loaded.raised
       /\ session_state' =
             store_summary(store_report_text(session_state, loaded.text),
                           ResponseText(request), uploaded_file[1])
       /\ log' = Append(log, request)
    /\ pc' = "chat"
    /\ UNCHANGED << probe_in, probe_out, uploaded_file, button, user_input, chat_input_shown,
                    pypdf, error >>

\* only the user turn is appended
extend_history_user_only(ss, typed, reply) ==
    [ss EXCEPT !.chat_history =
        Append(@, [role |-> "user", content |-> typed])]

\* the two turns are appended in the wrong order
extend_history_swapped(ss, typed, reply) ==
    [ss EXCEPT !.chat_history =
        @ \o << [role |-> "assistant", content |-> reply],
                [role |-> "user", content |-> typed] >>]

\* st.session_state.chat_history.extend([user turn, assistant turn])
extend_history(ss, typed, reply) ==
    [ss EXCEPT !.chat_history =
        @ \o << Message("user", typed), Message("assistant", reply) >>]

\* if not st.session_state.report_text: no chat input is rendered
ChatDisabled ==
    /\ pc = "chat"
    /\ session_state.report_text = << >>
    /\ chat_input_shown' = FALSE
    /\ pc' = "idle"
    /\ UNCHANGED << probe_in, probe_out, session_state, uploaded_file, button, user_input,
                    pypdf, log, error >>

\* the chat input is rendered and holds nothing
ChatIdle ==
    /\ pc = "chat"
    /\ session_state.report_text # << >>
    /\ user_input = None
    /\ chat_input_shown' = TRUE
    /\ pc' = "idle"
    /\ UNCHANGED << probe_in, probe_out, session_state, uploaded_file, button, user_input,
                    pypdf, log, error >>

\* the backend call of chat_with_report raises
ChatFails ==
    /\ pc = "chat"
    /\ session_state.report_text # << >>
    /\ user_input # None
    /\ LET call == chat_with_report(user_input[1], session_state.report_text,
                                    session_state.summary,
                                    session_state.chat_history)
       IN
       /\ session_state' =
             [session_state EXCEPT !.chat_history = call.chat_history]
       /\ log' = Append(log, call.request)
    /\ error' = "chat_with_report"
    /\ chat_input_shown' = TRUE
    /\ pc' = "idle"
    /\ UNCHANGED << probe_in, probe_out, uploaded_file, button, user_input, pypdf >>

\* lines 402-424 run to the end
ChatOk ==
    /\ pc = "chat"
    /\ session_state.report_text # << >>
    /\ user_input # None
    /\ LET call == chat_with_report(user_input[1], session_state.report_text,
                                    session_state.summary,
                                    session_state.chat_history)
           reply == ResponseText(call.request)
       IN
       /\ session_state' =
             extend_history(
                 [session_state EXCEPT !.chat_history = call.chat_history],
                 user_input[1], reply)
       /\ log' = Append(log, call.request)
    /\ chat_input_shown' = TRUE
    /\ pc' = "idle"
    /\ UNCHANGED << probe_in, probe_out, uploaded_file, button, user_input, pypdf, error >>

Next ==
    \/ UploadFile
    \/ RemoveFile
    \/ ClickReset
    \/ SubmitChat
    \/ Sidebar
    \/ UploadSkip
    \/ UploadLoadRaises
    \/ UploadSummaryFails
    \/ UploadOk
    \/ ChatDisabled
    \/ ChatIdle
    \/ ChatFails
    \/ ChatOk

Spec == Init /\ [][Next]_vars

\* The retry of a failed summarization, as a liveness specification.
\* generate_summary is reached: the file in the uploader is new and its text
\* was extracted (lines 360-363).
SummarizationAttempted ==
    /\ pc = "upload"
    /\ HasNewUpload
    /\ IF uploaded_file = None THEN FALSE
       ELSE ~load_report_text(uploaded_file[1], pypdf).raised

\* generate_summary returned and the upload block ran to its end (line 366)
SummarizationSucceeds == pc = "upload" /\ HasNewUpload /\ pc' = "chat"

\* a backend that is called again and again does not fail for ever
BackendRecovers ==
    []<>SummarizationAttempted => []<><<SummarizationSucceeds>>_vars

\* any widget event: each one makes Streamlit run main() again with the
\* file that is in the uploader
Interact == UploadFile \/ RemoveFile \/ ClickReset \/ SubmitChat

\* The user keeps interacting, a started run reaches its upload block, and
\* the backend recovers.
SpecRetry ==
    /\ Init
    /\ [][Next]_vars
    /\ WF_vars(Interact)
    /\ WF_vars(Sidebar)
    /\ BackendRecovers

\* ------------------------------------------------ the snippet on its own
\* all texts over {"a", "b"} of length at most n
Texts(n) == UNION { [1..k -> {"a", "b"}] : k \in 0..n }

InitSnippet ==
    /\ SessionInit
    /\ probe_in \in [op : {"snippet"}, text : Texts(MaxLen),
                     bound : 0..MaxBound]
    /\ probe_out = << >>

\* text[:bound]
SnippetOnce ==
    /\ probe_out = << >>
    /\ probe_out' = << Snippet(probe_in.text, probe_in.bound) >>
    /\ UNCHANGED << session_state, uploaded_file, button, user_input,
                    chat_input_shown, pypdf, pc, log, error, probe_in >>

\* text[:bound][:bound]
SnippetTwice ==
    /\ Len(probe_out) = 1
    /\ probe_out' = Append(probe_out, Snippet(probe_out[1], probe_in.bound))
    /\ UNCHANGED << session_state, uploaded_file, button, user_input,
                    chat_input_shown, pypdf, pc, log, error, probe_in >>

NextSnippet == SnippetOnce \/ SnippetTwice

SpecSnippet == InitSnippet /\ [][NextSnippet]_vars

\* --------------------------------------------- the extraction on its own
\* str.upper(), used to draw file names in other letter cases
upper_char(c) ==
    IF \E i \in 1..Len(LowerChars) : LowerChars[i] = c
    THEN UpperChars[CHOOSE i \in 1..Len(LowerChars) : LowerChars[i] = c]
    ELSE c
upper(s) == [i \in 1..Len(s) |-> upper_char(s[i])]

ProbeExts ==
    { ExtPdf, upper(ExtPdf), <<".", "P", "d", "f">>,
      ExtCsv, upper(ExtCsv),
      ExtXlsx, upper(ExtXlsx),
      ExtXls, upper(ExtXls),
      ExtTxt, upper(ExtTxt), <<".", "T", "x", "t">>,
      <<".", "d", "o", "c">>, <<".", "x", "l", "s", "m">>,
      << >>, <<"p", "d", "f">>, ExtPdf \o ExtTxt }

\* the file names drawn: a stem and one of the endings above
ProbeNames == { <<"r">> \o e : e \in ProbeExts }

\* every byte content of at most MaxPages bytes
ProbeBytes == UNION { [1..k -> ByteAlphabet] : k \in 0..MaxPages }

InitLoad ==
    /\ SessionInit
    /\ probe_in \in
          [op : {"pdf"}, name : {NamePdf}, bytes : ProbeBytes]
          \cup [op : {"load"}, name : ProbeNames, bytes : ProbeBytes]
    /\ probe_out = << >>

\* extract_text_from_pdf(buffer)
ExtractPdf ==
    /\ probe_in.op = "pdf"
    /\ probe_out = << >>
    /\ probe_out' = << extract_text_from_pdf(probe_in.bytes, pypdf) >>
    /\ UNCHANGED << session_state, uploaded_file, button, user_input,
                    chat_input_shown, pypdf, pc, log, error, probe_in >>

\* load_report_text(uploaded_file)
LoadReport ==
    /\ probe_in.op = "load"
    /\ probe_out = << >>
    /\ probe_out' =
          << load_report_text(File(probe_in.name, probe_in.bytes), pypdf) >>
    /\ UNCHANGED << session_state, uploaded_file, button, user_input,
                    chat_input_shown, pypdf, pc, log, error, probe_in >>

NextLoad == ExtractPdf \/ LoadReport

SpecLoad == InitLoad /\ [][NextLoad]_vars

\* ------------------------------------------------------------ properties
\* the name of the file in the uploader, None when there is none
UploadedName ==
    IF uploaded_file = None THEN None ELSE Some(uploaded_file[1].name)

\* the two request shapes differ in their system prompt
IsSummaryRequest(r) == r.messages[1].content = SummarySystemPrompt
IsChatRequest(r) == r.messages[1].content = ChatSystemPrompt

\* C1: when the upload step finds a file whose name equals last_filename,
\* it issues no backend call and leaves report_text, summary, last_filename
\* and chat_history (empty or not) as they were, and the run goes on.
C1_RedeliveryIsNoOp ==
    [][(/\ pc = "upload"
        /\ uploaded_file # None
        /\ session_state.last_filename = UploadedName)
       => (/\ session_state' = session_state
           /\ log' = log
           /\ error' = "none"
           /\ pc' = "chat")]_vars

\* C1 witness: the upload step has just skipped a file whose name is the
\* marker, with a conversation in progress and no backend call made.
C1_Witness ==
    /\ pc = "chat"
    /\ uploaded_file # None
    /\ session_state.last_filename = UploadedName
    /\ session_state.chat_history # << >>
    /\ session_state.summary # << >>
    /\ log = << >>

\* C2: when the upload step processes a file whose name differs from
\* last_filename and runs to its end, exactly one request, a summary request
\* for the snippet of the new text, has been issued, and the state holds the
\* extraction of the new file, the summary returned for it (alone, not
\* appended to the old one), the new file name, and an empty history.
C2_UploadReplacesState ==
    [][(pc = "upload" /\ pc' = "chat" /\ HasNewUpload)
       => LET f == uploaded_file[1]
              loaded == load_report_text(f, pypdf)
          IN /\ ~loaded.raised
             /\ Len(log') = Len(log) + 1
             /\ SubSeq(log', 1, Len(log)) = log
             /\ IsSummaryRequest(log'[Len(log')])
             /\ Len(log'[Len(log')].messages) = 2
             /\ log'[Len(log')].messages[2] =
                   [role |-> "user",
                    content |-> Snippet(loaded.text, ReportBound)]
             /\ session_state'.report_text = loaded.text
             /\ session_state'.summary = ResponseText(log'[Len(log')])
             /\ session_state'.last_filename = Some(f.name)
             /\ session_state'.chat_history = << >>]_vars

\* C2 witness: a document has just replaced an earlier one (the run before
\* rendered the chat input, so a text was loaded): the marker is the name of
\* the file in the uploader, the summary is the one returned by the single
\* request of this run, and the history is empty.
C2_Witness ==
    /\ pc = "chat"
    /\ Len(log) = 1
    /\ IsSummaryRequest(log[1])
    /\ uploaded_file # None
    /\ session_state.last_filename = UploadedName
    /\ session_state.report_text = load_report_text(uploaded_file[1], pypdf).text
    /\ session_state.report_text # << >>
    /\ session_state.summary = ResponseText(log[1])
    /\ session_state.chat_history = << >>
    /\ chat_input_shown

\* C5: a chat step that runs to its end issues exactly one request, a chat
\* request, and appends exactly the turn {user, text} and then the turn
\* {assistant, reply}; earlier turns, report_text, summary and last_filename
\* are unchanged.
C5_ChatAppendsTwoTurns ==
    [][(/\ pc = "chat"
        /\ session_state.report_text # << >>
        /\ user_input # None
        /\ error' = "none")
       => LET h == session_state.chat_history
              h2 == session_state'.chat_history
          IN /\ Len(log') = Len(log) + 1
             /\ SubSeq(log', 1, Len(log)) = log
             /\ IsChatRequest(log'[Len(log')])
             /\ Len(h2) = Len(h) + 2
             /\ SubSeq(h2, 1, Len(h)) = h
             /\ h2[Len(h) + 1] = [role |-> "user", content |-> user_input[1]]
             /\ h2[Len(h) + 2] =
                   [role |-> "assistant",
                    content |-> ResponseText(log'[Len(log')])]
             /\ session_state'.report_text = session_state.report_text
             /\ session_state'.summary = session_state.summary
             /\ session_state'.last_filename = session_state.last_filename]_vars

\* C5 witness: the second exchange of a conversation has just been appended.
C5_Witness ==
    /\ pc = "idle"
    /\ error = "none"
    /\ user_input # None
    /\ log # << >>
    /\ IsChatRequest(log[Len(log)])
    /\ Len(session_state.chat_history) = 4
    /\ session_state.chat_history[3] =
          [role |-> "user", content |-> user_input[1]]
    /\ session_state.chat_history[4] =
          [role |-> "assistant", content |-> ResponseText(log[Len(log)])]

\* C6: the reset in the sidebar empties chat_history and leaves report_text,
\* summary and last_filename unchanged, so the file in the uploader is new
\* to the upload step after the reset exactly if it was before.
C6_ResetClearsHistoryOnly ==
    [][(pc = "sidebar" /\ button)
       => (/\ session_state'.chat_history = << >>
           /\ session_state'.report_text = session_state.report_text
           /\ session_state'.summary = session_state.summary
           /\ session_state'.last_filename = session_state.last_filename
           /\ HasNewUpload' = HasNewUpload)]_vars

\* C6 witness: a reset has just run for a loaded document whose file is
\* still in the uploader; the upload step that follows will skip it.
C6_Witness ==
    /\ pc = "upload"
    /\ button
    /\ session_state.chat_history = << >>
    /\ session_state.summary # << >>
    /\ session_state.report_text # << >>
    /\ uploaded_file # None
    /\ ~HasNewUpload

\* C3: whenever a user message is accepted by the chat step, the stored
\* summary is the one generated from the stored report_text (not the summary
\* of an earlier document, and not the empty initial summary).
C3_SummaryMatchesDocument ==
    (/\ pc = "chat"
     /\ session_state.report_text # << >>
     /\ user_input # None)
    => session_state.summary =
          ResponseText(generate_summary(session_state.report_text))

\* C4: chat_history is non-empty only if summary is non-empty.
C4_HistoryOnlyWithSummary ==
    session_state.chat_history # << >> => session_state.summary # << >>

\* C7: load_report_text never raises, so no run ends in load_report_text.
C7_LoadNeverRaises == error # "load_report_text"

\* C8: the request of a chat call holds len(h) + 3 messages: the system
\* instruction, one assistant message made of the summary snippet and the
\* document snippet, the turns of the history h in their order, and the new
\* user message last.
C8_ChatRequestShape ==
    [][(pc = "chat" /\ log' # log)
       => LET h == session_state.chat_history
              msgs == log'[Len(log')].messages
          IN /\ Len(log') = Len(log) + 1
             /\ Len(msgs) = Len(h) + 3
             /\ msgs[1] = [role |-> "system", content |-> ChatSystemPrompt]
             /\ msgs[2] =
                   [role |-> "assistant",
                    content |->
                       ContextHead
                       \o Snippet(session_state.summary, SummaryBound)
                       \o ContextMiddle
                       \o Snippet(session_state.report_text, ReportBound)
                       \o ContextTail]
             /\ \A i \in 1..Len(h) : msgs[i + 2] = h[i]
             /\ msgs[Len(h) + 3] =
                   [role |-> "user", content |-> user_input[1]]]_vars

\* C8 witness: a chat request carrying a two-turn history between the
\* context message and the new user message has been sent (the call failed,
\* so chat_history is still the history the request was built from).
C8_Witness ==
    /\ pc = "idle"
    /\ error = "chat_with_report"
    /\ Len(session_state.chat_history) = 2
    /\ Len(log) = 1
    /\ Len(log[1].messages) = 5
    /\ SubSeq(log[1].messages, 3, 4) = session_state.chat_history
    /\ log[1].messages[5] = [role |-> "user", content |-> user_input[1]]

\* C9: chat_history changes only by the session's own steps: emptied by the
\* reset or by a processed upload, or extended by the two turns of a chat
\* step that ran to its end; a chat step whose backend call fails leaves it
\* as it was.
C9_HistorySingleWriter ==
    [][session_state'.chat_history # session_state.chat_history
       => \/ /\ pc = "sidebar"
             /\ button
             /\ session_state'.chat_history = << >>
          \/ /\ pc = "upload"
             /\ pc' = "chat"
             /\ session_state'.chat_history = << >>
          \/ /\ pc = "chat"
             /\ error' = "none"
             /\ session_state'.chat_history =
                   session_state.chat_history
                   \o << [role |-> "user", content |-> user_input[1]],
                         [role |-> "assistant",
                          content |-> ResponseText(log'[Len(log')])] >>]_vars

\* C9 witness: a chat call on a non-empty history has failed, and the
\* history still equals the turns the request carried.
C9_Witness ==
    /\ pc = "idle"
    /\ error = "chat_with_report"
    /\ session_state.chat_history # << >>
    /\ log # << >>
    /\ IsChatRequest(log[Len(log)])
    /\ SubSeq(log[Len(log)].messages, 3, Len(log[Len(log)].messages) - 1) =
          session_state.chat_history

\* C10: text[:bound] is the text itself when len(text) <= bound and exactly
\* its first bound characters otherwise, and slicing the result again with
\* the same bound returns the same result.
C10_SnippetPrefixIdempotent ==
    /\ Len(probe_out) >= 1 =>
          LET text == probe_in.text
              bound == probe_in.bound
              out == probe_out[1]
          IN /\ Len(text) <= bound => out = text
             /\ Len(text) > bound =>
                   /\ Len(out) = bound
                   /\ \A i \in 1..bound : out[i] = text[i]
    /\ Len(probe_out) = 2 => probe_out[2] = probe_out[1]

\* C10 witness: a text longer than a positive bound was cut, and cut again.
C10_Witness ==
    /\ Len(probe_out) = 2
    /\ probe_in.bound > 0
    /\ Len(probe_in.text) > probe_in.bound
    /\ Len(probe_out[1]) = probe_in.bound

\* C11: over every step, last_filename changes if and only if that step
\* stores a newly extracted report_text and a newly generated summary and
\* empties chat_history (the upload step that runs to its end); a failed
\* upload, the reset and a chat turn leave the marker as it was.
C11_MarkerChangesIffRegenerated ==
    [][(session_state'.last_filename # session_state.last_filename)
       <=> (/\ pc = "upload"
            /\ HasNewUpload
            /\ error' = "none"
            /\ Len(log') = Len(log) + 1
            /\ IsSummaryRequest(log'[Len(log')])
            /\ session_state'.report_text =
                  load_report_text(uploaded_file[1], pypdf).text
            /\ session_state'.summary = ResponseText(log'[Len(log')])
            /\ session_state'.chat_history = << >>)]_vars

\* C11 witness: the marker has just been set by an upload step, in a run
\* that started with no chat input on screen.
C11_Witness ==
    /\ pc = "chat"
    /\ Len(log) = 1
    /\ IsSummaryRequest(log[1])
    /\ session_state.last_filename # None
    /\ session_state.last_filename = UploadedName
    /\ session_state.summary = ResponseText(log[1])
    /\ session_state.chat_history = << >>
    /\ ~chat_input_shown

\* C12: whenever a document has been uploaded and its summary stored (the
\* marker is set) and a run has ended without an error, the chat input is on
\* screen, so a user message can be submitted and is processed; this covers
\* a document whose extracted text is empty.
C12_ReadyEnablesChat ==
    (/\ pc = "idle"
     /\ error = "none"
     /\ session_state.last_filename # None)
    => chat_input_shown

\* C13 as claimed: every summary request is sent with the temperature at
\* its minimum, 0, and is made of the fixed system message and the snippet
\* of the extracted text alone.
C13_SummaryRequestAtMinimumTemperature ==
    \A i \in 1..Len(log) :
        IsSummaryRequest(log[i]) =>
            /\ log[i].temperature = 0
            /\ log[i].model = MODEL_SUMMARY
            /\ log[i].messages =
                  << [role |-> "system", content |-> SummarySystemPrompt],
                     [role |-> "user",
                      content |-> Snippet(session_state.report_text,
                                          ReportBound)] >>

\* C13 as amended: every summary request is sent with the same fixed low
\* temperature, 0.2 (2 tenths), and is made of the fixed system message and
\* the snippet of the extracted text alone, so requests for the same text
\* are identical; the summary stored is the stripped completion of that
\* request.
C13_SummaryRequestFixedByText ==
    /\ \A i \in 1..Len(log) :
          IsSummaryRequest(log[i]) =>
             /\ log[i].temperature = 2
             /\ log[i].model = MODEL_SUMMARY
             /\ log[i].messages =
                   << [role |-> "system", content |-> SummarySystemPrompt],
                      [role |-> "user",
                       content |-> Snippet(session_state.report_text,
                                           ReportBound)] >>
    /\ (pc = "chat" /\ log # << >> /\ IsSummaryRequest(log[Len(log)]))
          => session_state.summary = strip(Complete(log[Len(log)]))

\* C13 witness: the same file was summarized again in a later run, after a
\* failed first attempt (the run was started by the reset button with the
\* file already in the uploader), and the request is the one its text fixes.
C13_Witness ==
    /\ pc = "chat"
    /\ button
    /\ uploaded_file # None
    /\ Len(log) = 1
    /\ IsSummaryRequest(log[1])
    /\ log[1].temperature = 2
    /\ log[1].messages[2].content =
          Snippet(load_report_text(uploaded_file[1], pypdf).text, ReportBound)
    /\ session_state.summary # << >>

\* a page yields text when its extraction does not raise
PageYields(b) == b \notin InvalidBytes

\* the texts put together from the last one backwards, a blank line
\* between neighbours
RECURSIVE BlankLineJoined(_)
BlankLineJoined(texts) ==
    IF Len(texts) = 0 THEN << >>
    ELSE IF Len(texts) = 1 THEN texts[1]
    ELSE BlankLineJoined(SubSeq(texts, 1, Len(texts) - 1))
            \o << "\n", "\n" >> \o texts[Len(texts)]

\* C14: with pypdf available and a PDF the reader opens, the extraction
\* raises nothing and returns the texts of the pages that yield text, in
\* page order, joined by a blank line; a page whose extraction fails
\* contributes nothing, not even a separator.
C14_PdfPagesJoinedInOrder ==
    (/\ probe_in.op = "pdf"
     /\ probe_out # << >>
     /\ pypdf
     /\ probe_in.bytes # << >>)
    => LET good == SelectSeq(probe_in.bytes, PageYields)
           texts == [i \in 1..Len(good) |->
                        IF good[i] = " " THEN << >> ELSE << good[i] >>]
       IN /\ ~probe_out[1].raised
          /\ probe_out[1].text = BlankLineJoined(texts)

\* C14 witness: a 3-page PDF whose page 2 fails was extracted to
\* page 1, a blank line, page 3.
C14_Witness ==
    /\ probe_in.op = "pdf"
    /\ pypdf
    /\ probe_in.bytes = << "a", "X", "b" >>
    /\ probe_out = << [raised |-> FALSE, text |-> << "a", "\n", "\n", "b" >>] >>

\* the ordered rules of the dispatch: ending -> extractor
DispatchRules ==
    << << ExtPdf, "pdf" >>, << ExtCsv, "csv" >>, << ExtXlsx, "excel" >>,
       << ExtXls, "excel" >>, << ExtTxt, "txt" >> >>

\* the rules whose ending the lower-cased name has
MatchingRules(name) ==
    { i \in 1..Len(DispatchRules) : endswith(lower(name), DispatchRules[i][1]) }

\* the extractor of the first matching rule, the raw decode when none matches
RuledExtractor(name) ==
    IF MatchingRules(name) = {} THEN "decode"
    ELSE DispatchRules[CHOOSE i \in MatchingRules(name) :
                          \A j \in MatchingRules(name) : i <= j][2]

\* C15: load_report_text returns what the extractor selected by the ordered
\* rules .pdf, .csv, .xlsx/.xls, .txt, else raw decode, returns for the
\* lower-cased file name; at most one rule matches a name, and every drawn
\* name that differs from it only in letter case gives the same result.
C15_DispatchByExtension ==
    (probe_in.op = "load" /\ probe_out # << >>)
    => LET name == probe_in.name
           bytes == probe_in.bytes
           kind == RuledExtractor(name)
       IN /\ Cardinality(MatchingRules(name)) <= 1
          /\ kind = "pdf" =>
                probe_out[1] = extract_text_from_pdf(bytes, pypdf)
          /\ kind = "csv" => probe_out[1] = extract_text_from_csv(bytes)
          /\ kind = "excel" => probe_out[1] = extract_text_from_excel(bytes)
          /\ kind \in {"txt", "decode"} =>
                probe_out[1] = [raised |-> FALSE, text |-> decode(bytes)]
          /\ \A other \in ProbeNames :
                lower(other) = lower(name) =>
                   load_report_text(File(other, bytes), pypdf) = probe_out[1]

\* C15 witness: a file named "r.Pdf" went to the PDF extractor (its result
\* is the page texts, not the raw decode), as "r.pdf" and "r.PDF" do.
C15_Witness ==
    /\ probe_in.op = "load"
    /\ probe_in.name = <<"r", ".", "P", "d", "f">>
    /\ probe_in.bytes = << "a", "b" >>
    /\ pypdf
    /\ probe_out = << [raised |-> FALSE, text |-> << "a", "\n", "\n", "b" >>] >>
    /\ decode(probe_in.bytes) # probe_out[1].text
    /\ {<<"r">> \o ExtPdf, <<"r">> \o upper(ExtPdf)} \subseteq ProbeNames

\* turns come in pairs: user first, then assistant
Alternates(h) ==
    /\ Len(h) % 2 = 0
    /\ \A i \in 1..Len(h) :
          h[i].role = IF i % 2 = 1 THEN "user" ELSE "assistant"

\* C16: in every reachable state chat_history has even length and its roles
\* alternate user, assistant, ... from a user turn; every chat request sent
\* is a system message, the assistant context message, an alternating
\* history, and a final user message.
C16_HistoryAlternates ==
    /\ Alternates(session_state.chat_history)
    /\ \A i \in 1..Len(log) :
          IsChatRequest(log[i]) =>
             LET msgs == log[i].messages IN
             /\ Len(msgs) >= 3
             /\ msgs[1].role = "system"
             /\ msgs[2].role = "assistant"
             /\ Alternates(SubSeq(msgs, 3, Len(msgs) - 1))
             /\ msgs[Len(msgs)].role = "user"

\* C16 witness: after two completed exchanges the history holds four turns,
\* and the last request carried the first two between context and question.
C16_Witness ==
    /\ pc = "idle"
    /\ error = "none"
    /\ Len(session_state.chat_history) = 4
    /\ Len(log) = 1
    /\ IsChatRequest(log[1])
    /\ Len(log[1].messages) = 5
    /\ log[1].messages[3].role = "user"
    /\ log[1].messages[4].role = "assistant"

\* C17: a chat step whose backend call fails leaves the whole session state
\* as it was: no user turn and no assistant turn is appended, and
\* report_text, summary and last_filename keep their values; the request
\* was sent exactly once.
C17_FailedChatChangesNothing ==
    [][(pc = "chat" /\ error' = "chat_with_report")
       => (/\ session_state' = session_state
           /\ Len(log') = Len(log) + 1
           /\ IsChatRequest(log'[Len(log')])
           /\ pc' = "idle")]_vars

\* C17 witness: the second question of a conversation failed at the
\* backend: the history still holds the first exchange only, whose question
\* was a different one.
C17_Witness ==
    /\ pc = "idle"
    /\ error = "chat_with_report"
    /\ user_input # None
    /\ Len(session_state.chat_history) = 2
    /\ session_state.chat_history[1].content # user_input[1]
    /\ Len(log) = 1
    /\ log[1].messages[Len(log[1].messages)].content = user_input[1]
    /\ session_state.last_filename # None

\* the session holds file f as its document: marker, summary of its text,
\* and no conversation yet
Settled(f) ==
    /\ session_state.last_filename = Some(f.name)
    /\ session_state.summary =
          strip(Complete(generate_summary(load_report_text(f, pypdf).text)))
    /\ session_state.chat_history = << >>

\* C18: an upload step whose summarization fails leaves last_filename as it
\* was, so the file in the uploader is still new to the next run and is
\* extracted and summarized again; and once the summarization of a file has
\* failed, either the file leaves the uploader or the session eventually
\* holds that file's name as marker, its summary, and an empty history.
C18_FailedSummaryIsRetried ==
    /\ [][(pc = "upload" /\ error' = "generate_summary")
          => (/\ session_state'.last_filename = session_state.last_filename
              /\ HasNewUpload')]_vars
    /\ \A f \in Files :
          (uploaded_file = Some(f) /\ error = "generate_summary")
             ~> (uploaded_file # Some(f) \/ Settled(f))

\* C18 witness: a file that was already in the uploader when the run began
\* (the run was started by the reset button) has been summarized in this
\* run, so an earlier delivery of it had failed, and the session now holds
\* it.
C18_Witness ==
    /\ pc = "chat"
    /\ button
    /\ uploaded_file # None
    /\ Len(log) = 1
    /\ IsSummaryRequest(log[1])
    /\ Settled(uploaded_file[1])

====
